---- MODULE Spec2Model ----
(***************************************************************************)
(* folca, a folder-based command cache (src/src/main.rs).                  *)
(*                                                                         *)
(* One invocation of main is a process walking through main's statements;  *)
(* the cache directory, the output path and the clock are shared by all    *)
(* invocations.  A u64 hash is kept as its 16 hexadecimal digits so that   *)
(* the whole 64-bit range is representable.                                *)
(*                                                                         *)
(*   Spec         invocations one after the other, with outside I/O        *)
(*                failures and outside changes of the cache directory      *)
(*   SpecDiscard  discard_until over any cache directory                   *)
(*   SpecTies     discard_until twice over equal inventories               *)
(*   SpecRace     two invocations with the same key at the same time       *)
(*   SpecKey      Opt::command_input_key over command lines and input      *)
(*                trees, the hashes given as the bytes they are fed        *)
(***************************************************************************)
EXTENDS Integers, Sequences, FiniteSets, TLC

(* ------------------------------ bounds -------------------------------- *)
NumCmd     == 2   \* distinct command hashes
NumWide    == 1   \* input hashes with a nonzero leading hex digit
NumShort   == 1   \* input hashes with leading zero hex digits
MaxOut     == 1   \* largest output tree, in bytes
MaxArchive == 1   \* largest archive file, in bytes
MaxLimit   == 2   \* largest max_cache_size
MaxTime    == 2   \* last clock value: one invocation starts per tick
MaxExit    == 2   \* largest exit code of the wrapped command
MaxTamper  == 1   \* external modifications of the cache directory
DNumWide   == 2   \* archives of the cache directory discard_until starts from
DMaxSize   == 2   \* their largest size, and the largest output
DMaxTime   == 2   \* their latest access time
DMaxLimit  == 3   \* the largest max_cache_size discard_until is given
MaxArgs    == 3   \* longest opt.command

(* ------------------------- program constants -------------------------- *)
U64Digits   == 16    \* hexadecimal digits of a u64
RegexStem   == 16    \* {16} in the pattern of Inventory::load
ErrExit     == 1     \* exit code of a main that returns Err
PanicExit   == 101   \* exit code of a panicking Rust program

Procs    == {1, 2}
SeqProcs == {1}

NoOutput == -1       \* nothing exists at output_path
Running  == -1       \* exit_code of an invocation that has not terminated
NotRun   == -3       \* status: the command was not started
SpawnErr == -2       \* status: Command::status() returned Err
Signal   == -1       \* status: ExitStatus::code() is None
None     == <<>>     \* Option::None; Some(x) is <<x>>

(* ----------------------------- hashes --------------------------------- *)
\* the u64 whose hexadecimal form has z leading zeros and then digit d
U64(z, d) == [i \in 1..U64Digits |-> IF i <= z THEN 0 ELSE d]

Key(c, i) == [command_hash |-> c, input_hash |-> i]

\* the keys of the invocations: nc commands, each with nw input trees whose
\* hash has 16 hexadecimal digits, and ns input trees of the first command
\* whose hash has fewer
KeySet(nc, nw, ns) ==
  {Key(U64(c - 1, c), U64(0, 9 + d)) : c \in 1..nc, d \in 1..nw}
    \cup {Key(U64(0, 1), U64(z, 1)) : z \in 1..ns}

Keys == KeySet(NumCmd, NumWide, NumShort)

RECURSIVE StripZeros(_)
StripZeros(s) ==
  IF Len(s) > 1 /\ Head(s) = 0 THEN StripZeros(Tail(s)) ELSE s

\* format!("{:x}", h)
FormatHex(h) == StripZeros(h)

\* u64::from_str_radix(s, 16); None when s is empty or overflows
FromStrRadix(s) ==
  IF Len(s) = 0 \/ Len(StripZeros(s)) > U64Digits THEN None
  ELSE LET t == StripZeros(s)
       IN  <<[i \in 1..U64Digits |->
                IF i <= U64Digits - Len(t) THEN 0
                ELSE t[i - (U64Digits - Len(t))]]>>

\* Inventory::to_path, relative to cache_path
to_path(key) ==
  [shard |-> FormatHex(key.command_hash),
   stem  |-> FormatHex(key.input_hash),
   ext   |-> "tar.gz"]

\* the pattern .*/([[:a-z0-9:]]+)/([[:a-z0-9:]]{16}).tar.gz$
RegexCaptures(path) ==
  IF Len(path.shard) >= 1 /\ Len(path.stem) = RegexStem /\ path.ext = "tar.gz"
  THEN <<path.shard, path.stem>> ELSE None

\* the key part of Inventory::load_entry
ParseKey(path) ==
  LET caps == RegexCaptures(path)
  IN  IF caps = None THEN None
      ELSE IF FromStrRadix(caps[1]) = None \/ FromStrRadix(caps[2]) = None
      THEN None
      ELSE <<[command_hash |-> FromStrRadix(caps[1])[1],
              input_hash   |-> FromStrRadix(caps[2])[1]]>>

\* Inventory::load over the files of the cache directory
Load(files) ==
  LET known == {q \in DOMAIN files : ParseKey(q) # None}
  IN  [k \in {ParseKey(q)[1] : q \in known} |->
         LET q == CHOOSE q \in known : ParseKey(q)[1] = k
         IN  [last_used |-> files[q].atime, size |-> files[q].size]]

(* ----------------------------- helpers -------------------------------- *)
RECURSIVE SumSize(_, _)
SumSize(f, S) ==
  IF S = {} THEN 0
  ELSE LET x == CHOOSE x \in S : TRUE IN f[x].size + SumSize(f, S \ {x})

Remove(f, x) == [y \in DOMAIN f \ {x} |-> f[y]]
Put(f, x, v) == [y \in DOMAIN f \cup {x} |-> IF y = x THEN v ELSE f[y]]

\* the entries of the inventory, as discard_until collects them
Entries(m) ==
  {[key |-> k, last_used |-> m[k].last_used, size |-> m[k].size] : k \in DOMAIN m}

\* oldest first, which makes discard_until pop the newest entry
SortCmpAscending(p1, p2) == p1.last_used <= p2.last_used

\* comparator of sort_by in discard_until: newest first
SortCmp(p1, p2) == p2.last_used <= p1.last_used

\* the orders sort_by can leave: the sort is stable over the iteration
\* order of a HashMap, which differs from run to run, so tied entries
\* come in any order
RECURSIVE Sorted(_)
Sorted(S) ==
  IF S = {} THEN {<<>>}
  ELSE LET first == {e \in S : \A o \in S : SortCmp(e, o)}
       IN  UNION {{<<e>> \o t : t \in Sorted(S \ {e})} : e \in first}

\* the loop stops one byte early
OverBudgetStrict(size, cached, limit) == size + cached > limit

\* loop condition of discard_until
OverBudget(size, cached, limit) == size + cached >= limit

\* early return of discard_until
TooLarge(size, limit) == size >= limit

\* every failure of the command reported as exit code 1
ExitCodeLost(st) == IF st = Signal THEN 0 ELSE ErrExit

\* exit_status.code().unwrap_or(0)
ExitCodeOf(st) == IF st = Signal THEN 0 ELSE st

\* an unpack that does not notice a truncated archive
UnpackUnchecked(file) == TRUE

\* archive.unpack succeeds on a complete archive
UnpackOk(file) == file.ok

\* a restore that leaves last_used alone
TouchNothing(val, t) == val

\* val.last_used = SystemTime::now()
Touch(val, t) == [val EXCEPT !.last_used = t]

\* the command is skipped when no key could be computed
ShouldRunKeyed(o) == ~o.dry_run /\ o.walk_ok

\* if !opt.dry_run { run the command }
ShouldRun(o) == ~o.dry_run

\* a dry run that goes on to evict and to write the archive
ShouldCacheAlways(o) == TRUE

\* if !opt.dry_run { discard_until ...; write_to_cache ... }
ShouldCache(o) == ~o.dry_run

\* an eviction that forgets to drop the entry from the inventory
InvRemoveNothing(m, k) == m

\* self.inv.remove(&key)
InvRemove(m, k) == Remove(m, k)

(* ------------------------------ state --------------------------------- *)
VARIABLES
  fs,              \* archive files under cache_path: path -> file
  dirs,            \* shard directories under cache_path
  output,          \* bytes of the tree at output_path, or NoOutput
  output_is_file,  \* output_path.is_file()
  now,             \* the clock
  max_cache_size,  \* opt.max_cache_size, the same for every invocation
  tampers,         \* external modifications made so far
  pc,              \* position of each invocation in main
  opt,             \* the parsed options of each invocation
  inv,             \* Inventory::inv
  cur_key,         \* cur_key of main
  output_size,     \* output_size of main
  cache_size,      \* cache_size of discard_until
  cache_entries,   \* cache_entries of discard_until
  exit_code,       \* the exit code of the invocation, or Running
  status,          \* the exit status of the wrapped command
  runs,            \* times the wrapped command was started
  restored,        \* try_restore_from_cache returned true
  restore_failed,  \* an unpack was attempted and failed
  evicted,         \* entries popped by discard_until, in order
  created,         \* write_to_cache created or truncated the archive
  wrote,           \* write_to_cache finished the archive
  fault,           \* an I/O operation of this invocation failed for a reason
                   \* outside the program (permissions, a full disk)
  disturbed,       \* the cache directory was modified externally after the
                   \* restore attempt of this invocation
  at_load,         \* fs and tampers when this invocation loaded its inventory
  earlier,         \* the keys an earlier run of discard_until evicted from
                   \* an equal inventory, or None
  command,         \* opt.command, a list of byte strings
  input_tree,      \* the files under opt.input_path: name -> content
  include_hidden,  \* opt.include_hidden
  key_stream,      \* the byte streams fed to the two hashers
  last_op          \* what was changed before the key was computed again

vars == <<fs, dirs, output, output_is_file, now, max_cache_size, tampers, pc, opt, inv,
          cur_key, output_size, cache_size, cache_entries, exit_code, status,
          runs, restored, restore_failed, evicted, created, wrote, fault,
          disturbed, at_load, earlier, command, input_tree, include_hidden,
          key_stream, last_op>>

hashing == <<command, input_tree, include_hidden, key_stream, last_op>>

caching == <<fs, dirs, output, output_is_file, now, max_cache_size, tampers,
             pc, opt, inv, cur_key, output_size, cache_size, cache_entries,
             exit_code, status, runs, restored, restore_failed, evicted,
             created, wrote, fault, disturbed, at_load, earlier>>

shared == <<fs, dirs, output, output_is_file, now, max_cache_size, tampers>>
ghosts == <<runs, restored, restore_failed, evicted, created, wrote, fault,
            disturbed, at_load>>
discard == <<cache_size, cache_entries>>

\* the options of an invocation; key holds the hashes of opt.command and of
\* the tree at opt.input_path, which command_input_key computes when the
\* walk succeeds
Opts == [dry_run : BOOLEAN, walk_ok : {TRUE}, key : Keys]
          \cup [dry_run : BOOLEAN, walk_ok : {FALSE}, key : {Key(U64(0, 1), U64(0, 10))}]

\* no fingerprint is being looked at
InitHashing ==
  /\ command = <<>>
  /\ input_tree = <<>>
  /\ include_hidden = FALSE
  /\ key_stream = None
  /\ last_op = "none"

InitCache ==
  /\ fs = <<>>
  /\ dirs = {}
  /\ output = NoOutput
  /\ output_is_file = FALSE
  /\ now = 0
  /\ max_cache_size \in 1..MaxLimit
  /\ tampers = 0
  /\ pc = [p \in Procs |-> "idle"]
  /\ opt = [p \in Procs |-> CHOOSE o \in Opts : TRUE]
  /\ inv = [p \in Procs |-> <<>>]
  /\ cur_key = [p \in Procs |-> None]
  /\ output_size = [p \in Procs |-> 0]
  /\ cache_size = [p \in Procs |-> 0]
  /\ cache_entries = [p \in Procs |-> <<>>]
  /\ exit_code = [p \in Procs |-> Running]
  /\ status = [p \in Procs |-> NotRun]
  /\ runs = [p \in Procs |-> 0]
  /\ restored = [p \in Procs |-> FALSE]
  /\ restore_failed = [p \in Procs |-> FALSE]
  /\ evicted = [p \in Procs |-> <<>>]
  /\ created = [p \in Procs |-> FALSE]
  /\ wrote = [p \in Procs |-> FALSE]
  /\ fault = [p \in Procs |-> FALSE]
  /\ disturbed = [p \in Procs |-> FALSE]
  /\ at_load = [p \in Procs |-> [fs |-> fs, tampers |-> tampers]]
  /\ earlier = None

Init ==
  /\ InitHashing
  /\ InitCache

(* ----------------------------- actions -------------------------------- *)
\* the invocation terminates with exit code c
Exit(p, c) ==
  /\ pc' = [pc EXCEPT ![p] = "done"]
  /\ exit_code' = [exit_code EXCEPT ![p] = c]

Goto(p, l) ==
  /\ pc' = [pc EXCEPT ![p] = l]
  /\ UNCHANGED exit_code

\* main returns Err
Err(p) ==
  /\ Exit(p, ErrExit)
  /\ UNCHANGED fault

\* main returns Err because an I/O operation failed for an outside reason
Fail(p) ==
  /\ Exit(p, ErrExit)
  /\ fault' = [fault EXCEPT ![p] = TRUE]

\* a new invocation with options from O, which finds the output path as the
\* last invocation left it, or cleaned away while none was running:
\* Opt::from_args and Inventory::load
Invoke(p, O) ==
  /\ pc[p] \in {"idle", "done"}
  /\ UNCHANGED <<hashing, earlier>>
  /\ \E o \in O : opt' = [opt EXCEPT ![p] = o]
  /\ inv' = [inv EXCEPT ![p] = Load(fs)]
  /\ Goto(p, "key")
  /\ cur_key' = [cur_key EXCEPT ![p] = None]
  /\ output_size' = [output_size EXCEPT ![p] = 0]
  /\ cache_size' = [cache_size EXCEPT ![p] = 0]
  /\ cache_entries' = [cache_entries EXCEPT ![p] = <<>>]
  /\ status' = [status EXCEPT ![p] = NotRun]
  /\ runs' = [runs EXCEPT ![p] = 0]
  /\ restored' = [restored EXCEPT ![p] = FALSE]
  /\ restore_failed' = [restore_failed EXCEPT ![p] = FALSE]
  /\ evicted' = [evicted EXCEPT ![p] = <<>>]
  /\ created' = [created EXCEPT ![p] = FALSE]
  /\ wrote' = [wrote EXCEPT ![p] = FALSE]
  /\ fault' = [fault EXCEPT ![p] = FALSE]
  /\ disturbed' = [disturbed EXCEPT ![p] = FALSE]
  /\ at_load' = [at_load EXCEPT ![p] = [fs |-> fs, tampers |-> tampers]]
  /\ now < MaxTime
  /\ now' = now + 1
  /\ \E cleaned \in BOOLEAN :
       /\ cleaned => \A q \in Procs : pc[q] \in {"idle", "done"}
       /\ output' = IF cleaned THEN NoOutput ELSE output
       /\ output_is_file' = (~cleaned /\ output_is_file)
  /\ UNCHANGED <<fs, dirs, max_cache_size, tampers>>

\* an invocation with any options
MainLoad(p) == Invoke(p, Opts)

\* Opt::command_input_key and the .ok() of main
command_input_key(o) ==
  IF o.walk_ok THEN <<o.key>> ELSE None

MainKey(p) ==
  /\ pc[p] = "key"
  /\ UNCHANGED <<hashing, earlier>>
  /\ cur_key' = [cur_key EXCEPT ![p] = command_input_key(opt[p])]
  /\ Goto(p, "restore")
  /\ UNCHANGED <<shared, opt, inv, output_size, discard, status, ghosts>>

\* the access time of a file after it was read
ReadAtimes(file) == {file.atime, now}

\* output_dir of try_restore_from_cache: the parent of an existing file,
\* else output_path itself
UnpackIntoParent == output # NoOutput /\ output_is_file

\* what archive.unpack(output_dir) leaves at output_path: a single-member
\* archive unpacked into the parent replaces the file; unpacked into
\* output_path, which unpack creates as a directory when it is missing, the
\* member lands inside that directory; the members of a directory archive
\* unpacked into the parent land beside the file, which stays as it is
Unpacked(file) ==
  IF UnpackIntoParent
  THEN IF file.single THEN [bytes |-> file.tree, is_file |-> TRUE]
       ELSE [bytes |-> output, is_file |-> TRUE]
  ELSE [bytes |-> file.tree, is_file |-> FALSE]

\* Inventory::try_restore_from_cache and the early return of main
TryRestore(p) ==
  /\ pc[p] = "restore"
  /\ UNCHANGED <<hashing, earlier>>
  /\ UNCHANGED <<dirs, now, max_cache_size, tampers, opt, cur_key,
                 output_size, discard, status, runs, evicted, created, wrote,
                 disturbed, at_load>>
  /\ IF cur_key[p] # None /\ cur_key[p][1] \in DOMAIN inv[p] /\ ~opt[p].dry_run
     THEN LET key  == cur_key[p][1]
              path == to_path(key)
          IN  IF path \in DOMAIN fs
              THEN \E t \in ReadAtimes(fs[path]), io \in BOOLEAN :
                     /\ fs' = [fs EXCEPT ![path].atime = t]
                     /\ IF UnpackOk(fs[path]) /\ io
                        THEN /\ output' = Unpacked(fs[path]).bytes
                             /\ output_is_file' = Unpacked(fs[path]).is_file
                             /\ inv' = [inv EXCEPT ![p][key] = Touch(@, now)]
                             /\ restored' = [restored EXCEPT ![p] = TRUE]
                             /\ Exit(p, 0)
                             /\ UNCHANGED <<restore_failed, fault>>
                        ELSE /\ restore_failed' = [restore_failed EXCEPT ![p] = TRUE]
                             /\ fault' = [fault EXCEPT ![p] = ~io]
                             /\ Goto(p, "run")
                             /\ UNCHANGED <<output, output_is_file, inv, restored>>
              ELSE /\ restore_failed' = [restore_failed EXCEPT ![p] = TRUE]
                   /\ Goto(p, "run")
                   /\ UNCHANGED <<fs, output, output_is_file, inv, restored, fault>>
     ELSE /\ Goto(p, "run")
          /\ UNCHANGED <<fs, output, output_is_file, inv, restored,
                         restore_failed, fault>>

\* after the command: if let (Some(inventory), Some(cur_key))
AfterRun(p) ==
  IF cur_key[p] # None THEN Goto(p, "size") ELSE Exit(p, 0)

\* lines 51-62 of main: run the wrapped command
RunCommand(p) ==
  /\ pc[p] = "run"
  /\ UNCHANGED <<hashing, earlier>>
  /\ UNCHANGED <<fs, dirs, now, max_cache_size, tampers, opt, inv, cur_key,
                 output_size, discard, restored, restore_failed, evicted,
                 created, wrote, fault, disturbed, at_load>>
  /\ IF ShouldRun(opt[p])
     THEN \E st \in {SpawnErr, Signal} \cup 0..MaxExit :
            /\ status' = [status EXCEPT ![p] = st]
            /\ IF st = SpawnErr
               THEN /\ Exit(p, ErrExit)
                    /\ UNCHANGED <<output, output_is_file, runs>>
               ELSE /\ runs' = [runs EXCEPT ![p] = @ + 1]
                    /\ \E o \in {NoOutput} \cup 0..MaxOut, f \in BOOLEAN :
                         /\ output' = o
                         /\ output_is_file' = (o # NoOutput /\ f)
                    /\ IF st = 0 THEN AfterRun(p) ELSE Exit(p, ExitCodeOf(st))
     ELSE /\ AfterRun(p)
          /\ UNCHANGED <<output, output_is_file, status, runs>>

\* Inventory::output_size, and the dry-run end of main
OutputSize(p) ==
  /\ pc[p] = "size"
  /\ UNCHANGED <<hashing, earlier>>
  /\ UNCHANGED <<shared, opt, inv, cur_key, discard, status, runs, restored,
                 restore_failed, evicted, created, wrote, disturbed, at_load>>
  /\ \E io \in BOOLEAN :
       IF output = NoOutput
       THEN /\ Err(p)
            /\ UNCHANGED output_size
       ELSE IF ~io
       THEN /\ Fail(p)
            /\ UNCHANGED output_size
       ELSE /\ output_size' = [output_size EXCEPT ![p] = output]
            /\ IF ShouldCache(opt[p]) THEN Goto(p, "discard") ELSE Exit(p, 0)
            /\ UNCHANGED fault

\* Inventory::discard_until up to the loop
DiscardBegin(p) ==
  /\ pc[p] = "discard"
  /\ UNCHANGED <<hashing, earlier>>
  /\ UNCHANGED <<shared, opt, inv, cur_key, output_size, status, ghosts>>
  /\ IF TooLarge(output_size[p], max_cache_size)
     THEN /\ Goto(p, "write")
          /\ UNCHANGED discard
     ELSE /\ cache_size' = [cache_size EXCEPT ![p] = SumSize(inv[p], DOMAIN inv[p])]
          /\ \E s \in Sorted(Entries(inv[p])) :
               cache_entries' = [cache_entries EXCEPT ![p] = s]
          /\ Goto(p, "loop")

\* one test of the loop condition of discard_until, and one iteration
DiscardLoop(p) ==
  /\ pc[p] = "loop"
  /\ UNCHANGED <<hashing, earlier>>
  /\ UNCHANGED <<output, output_is_file, now, max_cache_size, tampers, opt, cur_key,
                 output_size, status, runs, restored, restore_failed,
                 created, wrote, disturbed, at_load>>
  /\ IF ~OverBudget(output_size[p], cache_size[p], max_cache_size)
     THEN /\ Goto(p, "write")
          /\ UNCHANGED <<fs, dirs, inv, discard, evicted, fault>>
     ELSE IF cache_entries[p] = <<>>
     THEN /\ Exit(p, PanicExit)
          /\ UNCHANGED <<fs, dirs, inv, discard, evicted, fault>>
     ELSE LET e    == cache_entries[p][Len(cache_entries[p])]
              path == to_path(e.key)
              rest == Remove(fs, path)
          IN  /\ cache_entries' = [cache_entries EXCEPT
                                     ![p] = SubSeq(@, 1, Len(@) - 1)]
              /\ inv' = [inv EXCEPT ![p] = InvRemove(@, e.key)]
              /\ evicted' = [evicted EXCEPT ![p] = Append(@, e)]
              /\ \E io \in {"ok", "remove_file", "read_dir", "remove_dir"} :
                   IF path \notin DOMAIN fs
                   THEN /\ Err(p)
                        /\ UNCHANGED <<fs, dirs, cache_size>>
                   ELSE IF io = "remove_file"
                   THEN /\ Fail(p)
                        /\ UNCHANGED <<fs, dirs, cache_size>>
                   ELSE /\ fs' = rest
                        /\ IF io = "read_dir"
                           THEN /\ Fail(p)
                                /\ UNCHANGED <<dirs, cache_size>>
                           ELSE IF \E q \in DOMAIN rest : q.shard = path.shard
                           THEN /\ Goto(p, "loop")
                                /\ cache_size' = [cache_size EXCEPT ![p] = @ - e.size]
                                /\ UNCHANGED <<dirs, fault>>
                           ELSE IF io = "remove_dir"
                           THEN /\ Fail(p)
                                /\ UNCHANGED <<dirs, cache_size>>
                           ELSE /\ dirs' = dirs \ {path.shard}
                                /\ Goto(p, "loop")
                                /\ cache_size' = [cache_size EXCEPT ![p] = @ - e.size]
                                /\ UNCHANGED fault

\* a write of this process at position i of the file it has opened at path;
\* it is lost when the path has been unlinked or names another file by now
WritePart(files, path, p, i) ==
  IF path \in DOMAIN files /\ p \in files[path].open
  THEN [files EXCEPT ![path].parts =
          [k \in 1..(IF Len(@) > i THEN Len(@) ELSE i) |->
             IF k = i THEN p ELSE IF k <= Len(@) THEN @[k] ELSE 0]]
  ELSE files

\* the archive is what one process wrote from its first byte to its last
Complete(file) == \E q \in Procs : file.parts = <<q, q>>

\* the process exits or drops its File
Close(files, path, p) ==
  IF path \in DOMAIN files
  THEN [files EXCEPT ![path].open = @ \ {p}, ![path].ok = Complete(files[path])]
  ELSE files

\* Inventory::write_to_cache up to File::create, which truncates a file
\* that exists and leaves its access time alone
WriteCreate(p) ==
  /\ pc[p] = "write"
  /\ UNCHANGED <<hashing, earlier>>
  /\ UNCHANGED <<now, max_cache_size, tampers, opt, inv, cur_key, output_size,
                 discard, status, runs, restored, restore_failed, evicted, wrote,
                 disturbed, at_load>>
  /\ LET path == to_path(cur_key[p][1])
     IN  \E io \in {"ok", "create_dir", "create_dir_all", "create"} :
           IF output = NoOutput /\ io = "create_dir"
           THEN /\ Fail(p)
                /\ UNCHANGED <<fs, dirs, output, output_is_file, created>>
           ELSE /\ output' = IF output = NoOutput THEN 0 ELSE output
                /\ output_is_file' = (output # NoOutput /\ output_is_file)
                /\ IF io = "create_dir_all"
                   THEN /\ Fail(p)
                        /\ UNCHANGED <<fs, dirs, created>>
                   ELSE /\ dirs' = dirs \cup {path.shard}
                        /\ IF io = "create"
                           THEN /\ Fail(p)
                                /\ UNCHANGED <<fs, created>>
                           ELSE /\ fs' = Put(fs, path,
                                       [size   |-> 0,
                                        atime  |-> IF path \in DOMAIN fs
                                                   THEN fs[path].atime ELSE now,
                                        ok     |-> FALSE,
                                        tree   |-> NoOutput,
                                        single |-> FALSE,
                                        parts  |-> <<>>,
                                        open   |-> IF path \in DOMAIN fs
                                                   THEN fs[path].open \cup {p}
                                                   ELSE {p}])
                                /\ created' = [created EXCEPT ![p] = TRUE]
                                /\ Goto(p, "body")
                                /\ UNCHANGED fault

\* Inventory::write_to_cache: tar.append_dir_all or append_path_with_name
\* reads the output and writes the members through the encoder
WriteBody(p) ==
  /\ pc[p] = "body"
  /\ UNCHANGED <<hashing, earlier>>
  /\ UNCHANGED <<dirs, output, output_is_file, now, max_cache_size, tampers,
                 opt, inv, cur_key, output_size, discard, status, runs,
                 restored, restore_failed, evicted, created, wrote, disturbed,
                 at_load>>
  /\ LET path == to_path(cur_key[p][1])
         held == path \in DOMAIN fs /\ p \in fs[path].open
     IN  \E io \in {"ok", "tar"}, a \in 1..MaxArchive :
           IF output = NoOutput
           THEN /\ Err(p)
                /\ fs' = Close(fs, path, p)
           ELSE IF io = "tar"
           THEN /\ Fail(p)
                /\ fs' = Close(fs, path, p)
           ELSE /\ fs' = IF held
                         THEN [WritePart(fs, path, p, 1) EXCEPT
                                 ![path].size = a,
                                 ![path].ok = FALSE,
                                 ![path].tree = output,
                                 ![path].single = output_is_file]
                         ELSE fs
                /\ Goto(p, "finish")
                /\ UNCHANGED fault

\* Inventory::write_to_cache: tar.finish(), the drop of the builder, and
\* self.output_size; then the end of main
WriteFinish(p) ==
  /\ pc[p] = "finish"
  /\ UNCHANGED <<hashing, earlier>>
  /\ UNCHANGED <<dirs, output, output_is_file, now, max_cache_size, tampers,
                 opt, inv, cur_key, output_size, discard, status, runs,
                 restored, restore_failed, evicted, created, disturbed, at_load>>
  /\ LET path == to_path(cur_key[p][1])
     IN  \E io \in {"ok", "tar", "output_size"} :
           IF io = "tar"
           THEN /\ Fail(p)
                /\ fs' = Close(fs, path, p)
                /\ UNCHANGED wrote
           ELSE /\ fs' = Close(WritePart(fs, path, p, 2), path, p)
                /\ wrote' = [wrote EXCEPT ![p] = TRUE]
                /\ IF output = NoOutput
                   THEN Err(p)
                   ELSE IF io = "output_size"
                   THEN Fail(p)
                   ELSE Exit(p, 0) /\ UNCHANGED fault

\* the invocations whose restore attempt lies before an external change
Disturb ==
  disturbed' = [p \in Procs |-> disturbed[p] \/ pc[p] \notin {"key", "restore"}]

\* somebody else truncates or corrupts an archive
ExternalCorrupt ==
  /\ tampers < MaxTamper
  /\ \E q \in DOMAIN fs, s \in 0..MaxArchive :
       /\ fs[q].ok
       /\ s <= fs[q].size
       /\ fs' = [fs EXCEPT ![q].ok = FALSE, ![q].size = s, ![q].parts = <<>>]
  /\ tampers' = tampers + 1
  /\ Disturb
  /\ UNCHANGED <<hashing, earlier>>
  /\ UNCHANGED <<dirs, output, output_is_file, now, max_cache_size, pc, opt, inv, cur_key,
                 output_size, discard, exit_code, status, runs, restored,
                 restore_failed, evicted, created, wrote, fault, at_load>>

\* somebody else deletes an archive
ExternalDelete ==
  /\ tampers < MaxTamper
  /\ \E q \in DOMAIN fs : fs' = Remove(fs, q)
  /\ tampers' = tampers + 1
  /\ Disturb
  /\ UNCHANGED <<hashing, earlier>>
  /\ UNCHANGED <<dirs, output, output_is_file, now, max_cache_size, pc, opt, inv, cur_key,
                 output_size, discard, exit_code, status, runs, restored,
                 restore_failed, evicted, created, wrote, fault, at_load>>

Step(p) ==
  \/ MainLoad(p)
  \/ MainKey(p)
  \/ TryRestore(p)
  \/ RunCommand(p)
  \/ OutputSize(p)
  \/ DiscardBegin(p)
  \/ DiscardLoop(p)
  \/ WriteCreate(p)
  \/ WriteBody(p)
  \/ WriteFinish(p)

\* invocations one after the other
Next ==
  \/ \E p \in SeqProcs : Step(p)
  \/ ExternalCorrupt
  \/ ExternalDelete

Spec == Init /\ [][Next]_vars

(* ------------- discard_until over any cache directory ---------------- *)
DKeys  == KeySet(1, DNumWide, 0)
DFiles == [size : 1..DMaxSize, atime : 0..DMaxTime, ok : {TRUE}, tree : {0},
           single : {FALSE}, parts : {<<1, 1>>}, open : {{}}]

\* an invocation that has run its command and measured the output, over a
\* cache directory holding any archives
InitDiscard ==
  /\ InitHashing
  /\ fs \in UNION {[S -> DFiles] : S \in SUBSET {to_path(k) : k \in DKeys}}
  /\ dirs = {q.shard : q \in DOMAIN fs}
  /\ output \in 0..DMaxSize
  /\ output_is_file = FALSE
  /\ now = DMaxTime
  /\ max_cache_size \in 1..DMaxLimit
  /\ tampers = 0
  /\ pc = [p \in Procs |-> IF p \in SeqProcs THEN "discard" ELSE "idle"]
  /\ opt = [p \in Procs |-> [dry_run |-> FALSE, walk_ok |-> TRUE,
                              key |-> Key(U64(0, 1), U64(0, 15))]]
  /\ inv = [p \in Procs |-> IF p \in SeqProcs THEN Load(fs) ELSE <<>>]
  /\ cur_key = [p \in Procs |-> IF p \in SeqProcs THEN <<opt[p].key>> ELSE None]
  /\ output_size = [p \in Procs |-> IF p \in SeqProcs THEN output ELSE 0]
  /\ cache_size = [p \in Procs |-> 0]
  /\ cache_entries = [p \in Procs |-> <<>>]
  /\ exit_code = [p \in Procs |-> Running]
  /\ status = [p \in Procs |-> IF p \in SeqProcs THEN 0 ELSE NotRun]
  /\ runs = [p \in Procs |-> IF p \in SeqProcs THEN 1 ELSE 0]
  /\ restored = [p \in Procs |-> FALSE]
  /\ restore_failed = [p \in Procs |-> FALSE]
  /\ evicted = [p \in Procs |-> <<>>]
  /\ created = [p \in Procs |-> FALSE]
  /\ wrote = [p \in Procs |-> FALSE]
  /\ fault = [p \in Procs |-> FALSE]
  /\ disturbed = [p \in Procs |-> FALSE]
  /\ at_load = [p \in Procs |-> [fs |-> fs, tampers |-> tampers]]
  /\ earlier = None

NextDiscard ==
  \/ \E p \in SeqProcs : DiscardBegin(p)
  \/ \E p \in SeqProcs : DiscardLoop(p)

SpecDiscard == InitDiscard /\ [][NextDiscard]_vars

(* ------- two invocations at a time over one cache directory ---------- *)
RaceKey  == Key(U64(0, 1), U64(0, 10))
OtherKey == Key(U64(1, 2), U64(0, 10))

\* both invocations cache the output of the same command on the same input
RaceOpts == {[dry_run |-> FALSE, walk_ok |-> TRUE, key |-> RaceKey]}

\* the cache directory is empty or holds the archive of another key
RaceDirs ==
  {<<>>} \cup
  {[q \in {to_path(OtherKey)} |->
      [size |-> a, atime |-> 0, ok |-> TRUE, tree |-> 0, single |-> FALSE,
       parts |-> <<1, 1>>, open |-> {}]] : a \in 1..MaxArchive}

InitRace ==
  /\ InitHashing
  /\ fs \in RaceDirs
  /\ dirs = {q.shard : q \in DOMAIN fs}
  /\ output = NoOutput
  /\ output_is_file = FALSE
  /\ now = 0
  /\ max_cache_size \in 1..MaxLimit
  /\ tampers = 0
  /\ pc = [p \in Procs |-> "idle"]
  /\ opt = [p \in Procs |-> CHOOSE o \in RaceOpts : TRUE]
  /\ inv = [p \in Procs |-> <<>>]
  /\ cur_key = [p \in Procs |-> None]
  /\ output_size = [p \in Procs |-> 0]
  /\ cache_size = [p \in Procs |-> 0]
  /\ cache_entries = [p \in Procs |-> <<>>]
  /\ exit_code = [p \in Procs |-> Running]
  /\ status = [p \in Procs |-> NotRun]
  /\ runs = [p \in Procs |-> 0]
  /\ restored = [p \in Procs |-> FALSE]
  /\ restore_failed = [p \in Procs |-> FALSE]
  /\ evicted = [p \in Procs |-> <<>>]
  /\ created = [p \in Procs |-> FALSE]
  /\ wrote = [p \in Procs |-> FALSE]
  /\ fault = [p \in Procs |-> FALSE]
  /\ disturbed = [p \in Procs |-> FALSE]
  /\ at_load = [p \in Procs |-> [fs |-> fs, tampers |-> tampers]]
  /\ earlier = None

RaceLoad(p) == pc[p] = "idle" /\ Invoke(p, RaceOpts)

RaceStep(p) ==
  \/ RaceLoad(p)
  \/ MainKey(p)
  \/ TryRestore(p)
  \/ RunCommand(p)
  \/ OutputSize(p)
  \/ DiscardBegin(p)
  \/ DiscardLoop(p)
  \/ WriteCreate(p)
  \/ WriteBody(p)
  \/ WriteFinish(p)

\* no lock: the steps of the two invocations interleave freely
NextRace == \E p \in Procs : RaceStep(p)

SpecRace == InitRace /\ [][NextRace]_vars

(* ------------ discard_until twice over equal inventories ------------- *)
EvictedKeys(p) == {evicted[p][i].key : i \in 1..Len(evicted[p])}

\* discard_until has returned Ok; it is run once more with the same
\* output_size and limit over the cache directory as it was, which
\* Inventory::load turns into an equal inventory
Rerun(p) ==
  /\ pc[p] = "write"
  /\ earlier = None
  /\ earlier' = <<EvictedKeys(p)>>
  /\ fs' = at_load[p].fs
  /\ dirs' = {q.shard : q \in DOMAIN at_load[p].fs}
  /\ inv' = [inv EXCEPT ![p] = Load(at_load[p].fs)]
  /\ evicted' = [evicted EXCEPT ![p] = <<>>]
  /\ cache_size' = [cache_size EXCEPT ![p] = 0]
  /\ cache_entries' = [cache_entries EXCEPT ![p] = <<>>]
  /\ Goto(p, "discard")
  /\ UNCHANGED <<output, output_is_file, now, max_cache_size, tampers, opt,
                 cur_key, output_size, status, runs, restored, restore_failed,
                 created, wrote, fault, disturbed, at_load, hashing>>

NextTies ==
  \/ \E p \in SeqProcs : DiscardBegin(p)
  \/ \E p \in SeqProcs : DiscardLoop(p)
  \/ \E p \in SeqProcs : Rerun(p)

SpecTies == InitDiscard /\ [][NextTies]_vars

(* --------------------- Opt::command_input_key ------------------------- *)
\* the bytes that occur in names, in their order
Alphabet == <<".", "/", "a", "b", "h", "i">>
Rank(c)  == CHOOSE i \in 1..Len(Alphabet) : Alphabet[i] = c

RECURSIVE Concat(_)
Concat(ss) == IF ss = <<>> THEN <<>> ELSE Head(ss) \o Concat(Tail(ss))

\* what command_hasher is fed: command_part.as_bytes() of every part
CommandStream(cmd) == Concat(cmd)

InputPath      == <<"i">>
PathIn(name)   == InputPath \o <<"/">> \o name
IsHidden(name) == Head(name) = "."

\* WalkBuilder::hidden(yes) skips hidden entries when yes holds; the
\* argument it is given is self.include_hidden
HiddenSkipped(inc) == inc

\* the files the walk yields
Walked(tree, inc) ==
  {n \in DOMAIN tree : ~(HiddenSkipped(inc) /\ IsHidden(n))}

\* p1.cmp(p2) of sort_by_file_path, on the names of one directory
RECURSIVE PathLess(_, _)
PathLess(a, b) ==
  IF a = <<>> THEN b # <<>>
  ELSE IF b = <<>> THEN FALSE
  ELSE IF Head(a) = Head(b) THEN PathLess(Tail(a), Tail(b))
  ELSE Rank(Head(a)) < Rank(Head(b))

\* the loop over the walk: the path of every entry, and the content of a file
RECURSIVE WalkStream(_, _)
WalkStream(tree, names) ==
  IF names = {} THEN <<>>
  ELSE LET n == CHOOSE n \in names : \A m \in names \ {n} : PathLess(n, m)
       IN  PathIn(n) \o tree[n] \o WalkStream(tree, names \ {n})

\* what hasher is fed: the input path itself comes first
InputStream(tree, inc) == InputPath \o WalkStream(tree, Walked(tree, inc))

\* Opt::command_input_key with a hash that is collision-free on the bytes it
\* is fed: each hash is given as those bytes
KeyStream(cmd, tree, inc) ==
  <<[command_hash |-> CommandStream(cmd), input_hash |-> InputStream(tree, inc)]>>

Args     == {<<"a">>, <<"a", "a">>, <<"b">>}
Commands == UNION {[1..n -> Args] : n \in 1..MaxArgs}
Names    == {<<"a">>, <<".", "h">>}
Contents == {<<"a">>, <<"b">>}
Trees    == UNION {[S -> Contents] : S \in SUBSET Names}

\* a command line, an input tree and the fingerprint of the two
InitKey ==
  /\ InitCache
  /\ command \in Commands
  /\ input_tree \in Trees
  /\ include_hidden \in BOOLEAN
  /\ key_stream = KeyStream(command, input_tree, include_hidden)
  /\ last_op = "none"

\* the same command with two different arguments swapped
SwapArgs ==
  /\ \E i, j \in DOMAIN command :
       /\ i < j
       /\ command[i] # command[j]
       /\ command' = [command EXCEPT ![i] = command[j], ![j] = command[i]]
  /\ key_stream' = KeyStream(command', input_tree, include_hidden)
  /\ last_op' = "swap"
  /\ UNCHANGED <<input_tree, include_hidden, caching>>

\* the same invocation after a file of the input tree was modified
ModifyFile ==
  /\ \E n \in DOMAIN input_tree, c \in Contents :
       /\ c # input_tree[n]
       /\ input_tree' = [input_tree EXCEPT ![n] = c]
       /\ last_op' = IF IsHidden(n) THEN "modify_hidden" ELSE "modify"
  /\ key_stream' = KeyStream(command, input_tree', include_hidden)
  /\ UNCHANGED <<command, include_hidden, caching>>

NextKey ==
  \/ SwapArgs
  \/ ModifyFile

SpecKey == InitKey /\ [][NextKey]_vars

(* ------------------------------ claims -------------------------------- *)
KeyOf(p)  == cur_key[p][1]
PathOf(p) == to_path(KeyOf(p))
Total(m)  == SumSize(m, DOMAIN m)
Quiet     == \A p \in Procs : pc[p] \in {"idle", "done"}

\* the same archive files with the same contents; access times may differ
SameArchives(f, g) ==
  /\ DOMAIN f = DOMAIN g
  /\ \A q \in DOMAIN f :
       f[q].size = g[q].size /\ f[q].ok = g[q].ok /\ f[q].tree = g[q].tree

\* C1: an output of max_cache_size bytes or more is never cached: no
\* invocation that measured such an output creates or writes an archive, and
\* no archive in the cache directory holds such an output, so that no later
\* invocation can hit on it.
C1_OversizedNeverCached ==
  /\ \A p \in Procs :
       (created[p] \/ wrote[p]) => output_size[p] < max_cache_size
  /\ \A q \in DOMAIN fs : fs[q].tree < max_cache_size

\* C2: when no invocation is running and nobody else has modified the cache
\* directory, the archive files together are smaller than max_cache_size.
C2_CacheWithinBudget ==
  (Quiet /\ tampers = 0) => Total(fs) < max_cache_size

\* C3: with an untouched cache directory, an invocation whose key has an
\* intact archive of an output below max_cache_size at the key's address
\* (left by an earlier invocation with that key) never falls through to
\* running the command: it finds the key in the loaded inventory and restores;
\* and an invocation whose command succeeded ends with an archive at the
\* key's address.
C3_SecondRunRestores ==
  \A p \in Procs :
    /\ ( /\ pc[p] = "run"
         /\ ~opt[p].dry_run
         /\ cur_key[p] # None
         /\ tampers = 0
         /\ ~fault[p] )
       => ~( /\ PathOf(p) \in DOMAIN fs
             /\ fs[PathOf(p)].ok
             /\ fs[PathOf(p)].tree < max_cache_size )
    /\ ( /\ pc[p] = "done"
         /\ status[p] = 0
         /\ cur_key[p] # None
         /\ exit_code[p] = 0
         /\ tampers = 0 )
       => PathOf(p) \in DOMAIN fs

\* C4: when discard_until returns Ok for an output smaller than the limit,
\* the output and the entries left in the inventory together are smaller
\* than the limit.
C4_EvictionPostcondition ==
  \A p \in Procs :
    (pc[p] = "write" /\ output_size[p] < max_cache_size)
      => output_size[p] + Total(inv[p]) < max_cache_size

\* discard_until returned Ok after evicting some entries and keeping others
C4_Witness ==
  /\ pc[1] = "write"
  /\ output_size[1] < max_cache_size
  /\ evicted[1] # <<>>
  /\ DOMAIN inv[1] # {}

RECURSIVE SeqSize(_)
SeqSize(s) == IF s = <<>> THEN 0 ELSE Head(s).size + SeqSize(Tail(s))

\* the entries discard_until started from
Started(p) == Entries(inv[p]) \cup {evicted[p][i] : i \in 1..Len(evicted[p])}

DistinctLastUsed(S) ==
  \A a, b \in S : a.last_used = b.last_used => a = b

\* C5: over entries with pairwise distinct last_used and an output smaller
\* than the limit, discard_until evicts oldest first (the evicted entries are
\* in increasing last_used order and each is older than every entry kept),
\* evicts an entry only while the output and the entries not yet evicted reach
\* the limit, and returns Ok only when the budget holds: the evicted entries
\* are the shortest prefix of the ascending order that makes room.
C5_OldestFirstShortestPrefix ==
  \A p \in Procs :
    (DistinctLastUsed(Started(p)) /\ output_size[p] < max_cache_size)
      => /\ \A i, j \in 1..Len(evicted[p]) :
              i < j => evicted[p][i].last_used < evicted[p][j].last_used
         /\ \A i \in 1..Len(evicted[p]) : \A r \in Entries(inv[p]) :
              evicted[p][i].last_used < r.last_used
         /\ \A i \in 1..Len(evicted[p]) :
              output_size[p] + Total(inv[p])
                + SeqSize(SubSeq(evicted[p], i, Len(evicted[p]))) >= max_cache_size
         /\ pc[p] = "write" => output_size[p] + Total(inv[p]) < max_cache_size

\* the oldest of two entries with distinct last_used was evicted, the other kept
C5_Witness ==
  /\ pc[1] = "write"
  /\ DistinctLastUsed(Started(1))
  /\ Len(evicted[1]) = 1
  /\ Cardinality(DOMAIN inv[1]) = 1
  /\ output_size[1] < max_cache_size

\* C6: an invocation whose command ran and exited with status zero ends with
\* exit code 0, whatever I/O error the caching steps meet.
C6_IoErrorKeepsSuccess ==
  \A p \in Procs :
    (pc[p] = "done" /\ status[p] = 0 /\ exit_code[p] # PanicExit)
      => exit_code[p] = 0

\* C7: an invocation whose command exited with a nonzero code ends with that
\* exit code, having evicted nothing and created or written no archive: the
\* inventory has the keys it was loaded with and the archive files are those
\* the invocation found.
C7_FailedCommandNoCaching ==
  \A p \in Procs :
    (pc[p] = "done" /\ status[p] \in 1..MaxExit)
      => /\ exit_code[p] = status[p]
         /\ evicted[p] = <<>>
         /\ ~created[p]
         /\ ~wrote[p]
         /\ DOMAIN inv[p] = DOMAIN Load(at_load[p].fs)
         /\ tampers = at_load[p].tampers => SameArchives(fs, at_load[p].fs)

\* the command failed with the largest exit code over a cache that holds an entry
C7_Witness ==
  /\ pc[1] = "done"
  /\ status[1] = MaxExit
  /\ DOMAIN inv[1] # {}

\* C8: once the restore of a non-dry-run invocation has succeeded the
\* invocation is over with exit code 0: the command was not started, nothing
\* was evicted or written, and the entry's last_used is the current time.
C8_HitIsTerminal ==
  \A p \in Procs :
    restored[p]
      => /\ pc[p] = "done"
         /\ exit_code[p] = 0
         /\ ~opt[p].dry_run
         /\ runs[p] = 0
         /\ status[p] = NotRun
         /\ evicted[p] = <<>>
         /\ ~created[p]
         /\ ~wrote[p]
         /\ KeyOf(p) \in DOMAIN inv[p]
         /\ inv[p][KeyOf(p)].last_used = now
         /\ tampers = at_load[p].tampers => SameArchives(fs, at_load[p].fs)

\* a restore succeeded on an archive written at an earlier time
C8_Witness ==
  /\ restored[1]
  /\ PathOf(1) \in DOMAIN fs
  /\ fs[PathOf(1)].atime < now

FreshArchive(p) ==
  /\ PathOf(p) \in DOMAIN fs
  /\ fs[PathOf(p)].ok
  /\ fs[PathOf(p)].tree = output
  /\ KeyOf(p) \in DOMAIN Load(fs)

C11_AddressRoundTrip ==
  \A p \in Procs :
    (wrote[p] /\ PathOf(p) \in DOMAIN fs)
      => /\ ParseKey(PathOf(p)) = <<KeyOf(p)>>
         /\ KeyOf(p) \in DOMAIN Load(fs)

\* C12: a restore from the archive of a single file leaves a regular file
\* with the cached bytes at output_path, when a file is there before the
\* restore and when nothing is there; it never leaves a directory.
C12_SingleFileRestored ==
  [][\A p \in Procs :
       ( /\ pc[p] = "restore"
         /\ restored'[p]
         /\ fs[PathOf(p)].single
         /\ (output = NoOutput \/ output_is_file) )
       => (output_is_file' /\ output' = fs[PathOf(p)].tree)]_vars

\* C13: swapping two different arguments of the command changes
\* command_hash, the hash being collision-free on the bytes it is fed.
C13_SwapChangesCommandHash ==
  [][last_op' = "swap"
       => key_stream'[1].command_hash # key_stream[1].command_hash]_vars

\* what a dry-run invocation has done since it loaded its inventory
DryRunClean(p) ==
  /\ runs[p] = 0
  /\ status[p] = NotRun
  /\ ~restored[p]
  /\ ~restore_failed[p]
  /\ evicted[p] = <<>>
  /\ ~created[p]
  /\ ~wrote[p]
  /\ inv[p] = Load(at_load[p].fs)
  /\ tampers = at_load[p].tampers => fs = at_load[p].fs

\* C14: a dry-run invocation never starts the command, never unpacks, evicts
\* or writes, and leaves its inventory as loaded; and no step of a dry-run
\* invocation changes the output path, an archive file (its access time
\* included) or a shard directory.
C14_DryRunNoSideEffects ==
  /\ [](\A p \in Procs :
          (opt[p].dry_run /\ pc[p] # "idle") => DryRunClean(p))
  /\ [][\A p \in Procs :
          (opt[p].dry_run /\ pc[p] \notin {"idle", "done"} /\ pc'[p] # pc[p])
            => /\ output' = output
               /\ fs' = fs
               /\ dirs' = dirs
               /\ inv'[p] = inv[p]]_vars

\* a dry-run invocation whose key is in the inventory has ended successfully
C14_Witness ==
  /\ pc[1] = "done"
  /\ opt[1].dry_run
  /\ exit_code[1] = 0
  /\ cur_key[1] # None
  /\ KeyOf(1) \in DOMAIN inv[1]
  /\ output_size[1] > 0

C16_EvictionDeterministic ==
  \A p \in Procs :
    (earlier # None /\ pc[p] = "write") => EvictedKeys(p) = earlier[1]

\* C17: with include_hidden unset, modifying a hidden file of the input tree
\* leaves input_hash as it was; with include_hidden set, it changes
\* input_hash.
C17_IncludeHiddenToggle ==
  [][last_op' = "modify_hidden"
       => IF include_hidden
          THEN key_stream'[1].input_hash # key_stream[1].input_hash
          ELSE key_stream'[1].input_hash = key_stream[1].input_hash]_vars

\* C18: when two invocations with the same key have both missed and both
\* stored, the file at the key's address is the complete archive written by
\* one of them.
C18_LastWriterWins ==
  ( /\ \A p \in Procs : pc[p] = "done" /\ wrote[p] /\ ~restored[p]
    /\ KeyOf(1) = KeyOf(2) )
  => /\ PathOf(1) \in DOMAIN fs
     /\ Complete(fs[PathOf(1)])

\* another invocation has changed the cache directory since this one loaded
ChangedSinceLoad(p) == ~SameArchives(fs, at_load[p].fs)

\* C19: when the inserts and deletes of another invocation have made the
\* accounting of discard_until wrong, so that its evictions have exhausted
\* the entry list while the output and the archives in the cache directory
\* still reach the limit, the loop condition still holds and the pop from the
\* empty list aborts the invocation.
C19_ExhaustedEntriesAbort ==
  \A p \in Procs :
    ( /\ pc[p] = "loop"
      /\ cache_entries[p] = <<>>
      /\ evicted[p] # <<>>
      /\ ChangedSinceLoad(p)
      /\ output_size[p] + Total(Load(fs)) >= max_cache_size )
    => OverBudget(output_size[p], cache_size[p], max_cache_size)

\* the abort of discard_until never happens
AbortUnreachable == \A p \in Procs : exit_code[p] # PanicExit

\* C20: a non-dry-run invocation ends with exit code 0 only if the output was
\* restored or the command terminated successfully.
C20_ZeroOnlyOnSuccess ==
  \A p \in Procs :
    (pc[p] = "done" /\ ~opt[p].dry_run /\ exit_code[p] = 0)
      => (restored[p] \/ status[p] = 0)

TypeOK ==
  /\ output \in {NoOutput} \cup Nat
  /\ \A q \in DOMAIN fs : fs[q].size \in Nat /\ fs[q].atime \in 0..now
  /\ \A p \in Procs : pc[p] \in {"idle", "key", "restore", "run", "size",
                                  "discard", "loop", "write", "body", "finish",
                                  "done"}
====
